---- MODULE Spec2Model ----
(***************************************************************************)
(* Model of hamodikk/movieDB (src/main.go, the batched loader at lines     *)
(* 151-591): main creates a temporary SQLite database, loads two CSV files *)
(* into the tables movies and movies_genres with batched inserts inside    *)
(* one transaction per table, and runs two reporting queries.              *)
(*                                                                         *)
(* Strings are modelled as sequences of tokens (a word or the one          *)
(* character ","), so that strings.Join and the slicing of insertStmt are  *)
(* computed as the code computes them.                                     *)
(***************************************************************************)
EXTENDS Integers, Sequences, FiniteSets, TLC

\* ---------------------------------------------------------------- bounds
\* Largest number of data records of a CSV file.
MaxRecords == 201
\* Largest number of data records of the movies_genres file when the movies
\* file holds more than this many.
MaxOther == 2
\* Largest number of malformed (undecodable) records in one CSV file.
MaxSkips == 2
\* Longest header record given to validateHeaders on its own.
MaxHeaderLen == 5
\* Movie ids and numeric ranks of the tables a reporting query is run on.
MaxMovies == 3
MaxRank == 2

\* ------------------------------------------------------ program constants
batchSize == 100
\* LIMIT 20
QueryLimit == 20

TableNames == {"movies", "movies_genres"}

\* ------------------------------------------------------------ strings
\* strings.Join(elems, sep): the elements with sep between them.
RECURSIVE Join(_, _)
Join(elems, sep) ==
    IF Len(elems) = 0 THEN <<>>
    ELSE IF Len(elems) = 1 THEN elems[1]
    ELSE elems[1] \o sep \o Join(Tail(elems), sep)

Str(w) == <<w>>
Comma == <<",">>

MoviesHeaders == <<Str("id"), Str("name"), Str("year"), Str("rank")>>
GenresHeaders == <<Str("movie_id"), Str("genre")>>

\* The expected header list of the switch in validateHeaders; <<>> stands
\* for the default case (no list).
expectedHeaders(tableName) ==
    IF tableName = "movies" THEN MoviesHeaders
    ELSE IF tableName = "movies_genres" THEN GenresHeaders
    ELSE <<>>

validateHeaders(tableName, headers) ==
    IF tableName \notin TableNames THEN FALSE
    ELSE Join(headers, Comma) = Join(expectedHeaders(tableName), Comma)

\* -------------------------------------------------------- loader tables
\* Number of record fields the loader of a table binds per row.
ColumnCount(t) == IF t = "movies" THEN 4 ELSE 2

InsertPrefix(t) ==
    IF t = "movies" THEN "INSERT INTO movies (id, name, year, rank) VALUES"
    ELSE "INSERT INTO movies_genres (movie_id, genre) VALUES"

Placeholders(t) == IF t = "movies" THEN "(?, ?, ?, ?)" ELSE "(?, ?)"

\* AppendGroup adding the placeholder group twice.
AppendGroupTwice(stmt, t) ==
    stmt \o <<Placeholders(t), ",", Placeholders(t), ",">>

\* insertStmt += "(?, ?, ?, ?),"  (the group, then the one character ",")
AppendGroup(stmt, t) == stmt \o <<Placeholders(t), ",">>

\* insertStmt[:len(insertStmt)-1]: the statement without its last character.
\* The model's last token is always the one-character token "," when the
\* statement is executed.
DropLastChar(stmt) == SubSeq(stmt, 1, Len(stmt) - 1)

\* Number of placeholder groups of a statement.
Groups(stmt, t) == Cardinality({i \in 1..Len(stmt) : stmt[i] = Placeholders(t)})

\* The k-th well-formed data record of a file whose header record has n
\* fields: encoding/csv fixes FieldsPerRecord to the header's field count,
\* so every record Read returns without error has n fields.
Field(k, c) == <<k, c>>
Record(k, n) == [c \in 1..n |-> Field(k, c)]

\* The rows a multi-row INSERT stores: the parameter list cut into groups
\* of ColumnCount(t) values, in order.
RowsOf(vals, t) ==
    [i \in 1..(Len(vals) \div ColumnCount(t)) |->
        SubSeq(vals, (i - 1) * ColumnCount(t) + 1, i * ColumnCount(t))]

\* The engine accepts a statement only if every placeholder has a value.
Bindable(stmt, vals, t) == Groups(stmt, t) * ColumnCount(t) = Len(vals)

\* Header records the reader of a table's CSV file may return.
HeaderInputs(t) ==
    IF t = "movies"
    THEN { MoviesHeaders,
           <<Str("name"), Str("id"), Str("year"), Str("rank")>>,
           GenresHeaders,
           <<Str("id") \o Comma \o Str("name"), Str("year"), Str("rank")>> }
    ELSE { GenresHeaders,
           <<Str("genre"), Str("movie_id")>>,
           MoviesHeaders,
           <<Str("movie_id") \o Comma \o Str("genre")>> }

VARIABLES
    mainPc,         \* position of main
    dirExists,      \* the temporary directory exists
    dbOpen,         \* the database handle is open
    pc,             \* position of the running populate function
    err,            \* the function-scope variable err of the populate function
    retVal,         \* the value of the executing return statement
    header,         \* per table: the header record read
    txState,        \* per table: state of the load's transaction
    txRows,         \* per table: rows inserted in the open transaction
    table,          \* per table: committed rows
    values,         \* the batch values
    insertStmt,     \* the statement text
    validRowCount,
    totalMovies,
    rowNumber,
    ret,            \* per table: result of the populate call
    hist,           \* per table: counters of the calls the load made
    printed,        \* per table: the total printed by a successful load
    lastDiag,       \* row number printed by the iteration just run (0: none)
    lastLine,       \* kind of the line the iteration just run read
    lastExec,       \* the last tx.Exec call of the running load
    queries,        \* reporting queries executed
    vhTable, vhHeaders, vhResult,   \* a call of validateHeaders on its own
    ubPc,           \* position of the unbatched populateMovies
    ubHeader,       \* its header record
    ubRowNumber,    \* its variable rowNumber
    ubRecords,      \* data records it has read
    ubSkipped,      \* data records it has skipped
    ubDiag,         \* row number printed by its iteration just run (0: none)
    ubRet,          \* its result
    qRank,          \* movies table: rank of each movie id
    qLinks,         \* movies_genres table: its rows
    qPc,            \* position of the reporting query
    qResult         \* the rows the reporting query returned

vars == <<mainPc, dirExists, dbOpen, pc, err, retVal, header, txState, txRows,
          table, values, insertStmt, validRowCount, totalMovies, rowNumber,
          ret, hist, printed, lastDiag, lastLine, lastExec, queries, vhTable,
          vhHeaders, vhResult, ubPc, ubHeader, ubRowNumber, ubRecords,
          ubSkipped, ubDiag, ubRet, qRank, qLinks, qPc, qResult>>

mainVars == <<mainPc, dirExists, dbOpen, queries>>
loadVars == <<pc, err, retVal, header, txState, txRows, table, values,
              insertStmt, validRowCount, totalMovies, rowNumber, ret, hist,
              printed, lastDiag, lastLine, lastExec>>
vhVars == <<vhTable, vhHeaders, vhResult>>
ubVars == <<ubPc, ubHeader, ubRowNumber, ubRecords, ubSkipped, ubDiag, ubRet>>
qVars == <<qRank, qLinks, qPc, qResult>>

ZeroHist == [headerReads |-> 0, reads |-> 0, decoded |-> 0, skipped |-> 0,
             begins |-> 0, execs |-> 0, execFails |-> 0, commits |-> 0,
             commitFails |-> 0, rollbacks |-> 0, eof |-> FALSE,
             batches |-> <<>>]

\* No tx.Exec call yet.
NoExec == [stmt |-> <<>>, params |-> <<>>, rows |-> 0, last |-> 0]

\* The table the running populate function loads.
cur == IF mainPc = "movies" THEN "movies" ELSE "movies_genres"
loading == mainPc \in TableNames

\* The program before main runs.
ProgramInit ==
    /\ mainPc = "mkdir"
    /\ dirExists = FALSE
    /\ dbOpen = FALSE
    /\ pc = "idle"
    /\ err = "nil"
    /\ retVal = "nil"
    /\ header = [t \in TableNames |-> <<>>]
    /\ txState = [t \in TableNames |-> "NotStarted"]
    /\ txRows = [t \in TableNames |-> <<>>]
    /\ table = [t \in TableNames |-> <<>>]
    /\ values = <<>>
    /\ insertStmt = <<>>
    /\ validRowCount = 0
    /\ totalMovies = 0
    /\ rowNumber = 0
    /\ ret = [t \in TableNames |-> "notcalled"]
    /\ hist = [t \in TableNames |-> ZeroHist]
    /\ printed = [t \in TableNames |-> -1]
    /\ lastDiag = 0
    /\ lastLine = "none"
    /\ lastExec = NoExec
    /\ queries = 0

\* No call of validateHeaders on its own, no run of the unbatched
\* populateMovies, no reporting query on its own.
NoValidateCall ==
    /\ vhTable = "none"
    /\ vhHeaders = <<>>
    /\ vhResult = "none"
NoUnbatchedRun ==
    /\ ubPc = "none"
    /\ ubHeader = <<>>
    /\ ubRowNumber = 0
    /\ ubRecords = 0
    /\ ubSkipped = 0
    /\ ubDiag = 0
    /\ ubRet = "notcalled"
NoQueryRun ==
    /\ qRank = <<>>
    /\ qLinks = {}
    /\ qPc = "none"
    /\ qResult = <<>>

Init ==
    /\ ProgramInit
    /\ NoValidateCall
    /\ NoUnbatchedRun
    /\ NoQueryRun


\* ------------------------------------------------------------------ main
\* os.MkdirTemp; on success the removal of the directory is deferred.
MkdirTemp ==
    /\ mainPc = "mkdir"
    /\ \E ok \in BOOLEAN :
        IF ok THEN mainPc' = "schema" /\ dirExists' = TRUE
        ELSE mainPc' = "exited" /\ UNCHANGED dirExists
    /\ UNCHANGED <<dbOpen, queries>>
    /\ UNCHANGED loadVars
    /\ UNCHANGED vhVars
    /\ UNCHANGED ubVars
    /\ UNCHANGED qVars

\* newSchema without the db.Close() of its schema-error path (line 213).
newSchemaLeavesOpen ==
    /\ mainPc = "schema"
    /\ \E outcome \in {"ok", "openError", "schemaError"} :
        IF outcome = "ok" THEN mainPc' = "movies" /\ dbOpen' = TRUE
        ELSE /\ mainPc' = "removeDir"
             /\ dbOpen' = (outcome = "schemaError")
    /\ UNCHANGED <<dirExists, queries>>
    /\ UNCHANGED loadVars
    /\ UNCHANGED vhVars
    /\ UNCHANGED ubVars
    /\ UNCHANGED qVars

\* newSchema and main's check of its result: on an error the handle is not
\* open (sql.Open failed, or db.Close() after the failed DDL) and main
\* returns; otherwise the two Close calls are deferred.
newSchema ==
    /\ mainPc = "schema"
    /\ \E outcome \in {"ok", "openError", "schemaError"} :
        IF outcome = "ok" THEN mainPc' = "movies" /\ dbOpen' = TRUE
        ELSE mainPc' = "removeDir" /\ dbOpen' = FALSE
    /\ UNCHANGED <<dirExists, queries>>
    /\ UNCHANGED loadVars
    /\ UNCHANGED vhVars
    /\ UNCHANGED ubVars
    /\ UNCHANGED qVars

\* if err = movies.populateMovies(); err != nil { return }
\* A panic of the callee unwinds main as well: its deferred calls run.
CheckMovies ==
    /\ mainPc = "movies" /\ pc = "idle" /\ ret["movies"] # "notcalled"
    /\ mainPc' = IF ret["movies"] = "nil" THEN "movies_genres" ELSE "closeDb"
    /\ UNCHANGED <<dirExists, dbOpen, queries>>
    /\ UNCHANGED loadVars
    /\ UNCHANGED vhVars
    /\ UNCHANGED ubVars
    /\ UNCHANGED qVars

\* if err = genres.populateMoviesGenres(); err != nil { return }
CheckGenres ==
    /\ mainPc = "movies_genres" /\ pc = "idle"
    /\ ret["movies_genres"] # "notcalled"
    /\ mainPc' = IF ret["movies_genres"] = "nil" THEN "query1" ELSE "closeDb"
    /\ UNCHANGED <<dirExists, dbOpen, queries>>
    /\ UNCHANGED loadVars
    /\ UNCHANGED vhVars
    /\ UNCHANGED ubVars
    /\ UNCHANGED qVars

\* queryDbHighestRatedGenres(movies.db) and main's check of its result.
queryDbHighestRatedGenres ==
    /\ mainPc = "query1"
    /\ queries' = queries + 1
    /\ \E ok \in BOOLEAN : mainPc' = IF ok THEN "query2" ELSE "closeDb"
    /\ UNCHANGED <<dirExists, dbOpen>>
    /\ UNCHANGED loadVars
    /\ UNCHANGED vhVars
    /\ UNCHANGED ubVars
    /\ UNCHANGED qVars

\* queryDbMovieCountPerGenre(movies.db); main returns either way.
queryDbMovieCountPerGenre ==
    /\ mainPc = "query2"
    /\ queries' = queries + 1
    /\ mainPc' = "closeDb"
    /\ UNCHANGED <<dirExists, dbOpen>>
    /\ UNCHANGED loadVars
    /\ UNCHANGED vhVars
    /\ UNCHANGED ubVars
    /\ UNCHANGED qVars

\* The deferred genres.db.Close() and movies.db.Close() (one handle).  No
\* work of a transaction that was not committed survives the handle.
CloseDb ==
    /\ mainPc = "closeDb"
    /\ dbOpen' = FALSE
    /\ txRows' = [t \in TableNames |-> <<>>]
    /\ mainPc' = "removeDir"
    /\ UNCHANGED <<dirExists, queries>>
    /\ UNCHANGED <<pc, err, retVal, header, txState, table, values, insertStmt,
                   validRowCount, totalMovies, rowNumber, ret, hist, printed,
                   lastDiag, lastLine, lastExec>>
    /\ UNCHANGED vhVars
    /\ UNCHANGED ubVars
    /\ UNCHANGED qVars

\* The deferred os.RemoveAll(dir).
RemoveDir ==
    /\ mainPc = "removeDir"
    /\ dirExists' = FALSE
    /\ mainPc' = "exited"
    /\ UNCHANGED <<dbOpen, queries>>
    /\ UNCHANGED loadVars
    /\ UNCHANGED vhVars
    /\ UNCHANGED ubVars
    /\ UNCHANGED qVars


\* -------------------------------------------------- the populate function
\* populateMovies (lines 225-324) and populateMoviesGenres (lines 327-426)
\* are the same text up to the table name, the column count and the
\* statement; the actions below are that text for the table cur.

H(field, v) == [hist EXCEPT ![cur][field] = v]
Hist2(f1, v1, f2, v2) == [hist EXCEPT ![cur][f1] = v1, ![cur][f2] = v2]

\* Data records of a table's file consumed so far, and the most it holds.
Consumed(t) == hist[t].decoded + hist[t].skipped
Limit(t) ==
    IF t = "movies_genres" /\ Consumed("movies") > MaxOther THEN MaxOther
    ELSE MaxRecords

\* os.Open of the CSV file (err is declared here).
OpenCSV ==
    /\ loading /\ pc = "idle" /\ ret[cur] = "notcalled"
    /\ \E ok \in BOOLEAN :
        IF ok THEN /\ err' = "nil"
                   /\ pc' = "header"
                   /\ UNCHANGED retVal
        ELSE /\ err' = "error"
             /\ retVal' = "error"
             /\ pc' = "return"
    /\ UNCHANGED <<header, txState, txRows, table, values, insertStmt,
                   validRowCount, totalMovies, rowNumber, ret, hist, printed,
                   lastDiag, lastLine, lastExec>>
    /\ UNCHANGED mainVars
    /\ UNCHANGED vhVars
    /\ UNCHANGED ubVars
    /\ UNCHANGED qVars

\* moviesHeader, err := moviesReader.Read()   (assigns the same err)
ReadHeader ==
    /\ loading /\ pc = "header"
    /\ hist' = H("headerReads", hist[cur].headerReads + 1)
    /\ \/ /\ err' = "error"
          /\ retVal' = "error"
          /\ pc' = "return"
          /\ UNCHANGED header
       \/ \E h \in HeaderInputs(cur) :
            /\ header' = [header EXCEPT ![cur] = h]
            /\ err' = "nil"
            /\ pc' = "validate"
            /\ UNCHANGED retVal
    /\ UNCHANGED <<txState, txRows, table, values, insertStmt, validRowCount,
                   totalMovies, rowNumber, ret, printed, lastDiag, lastLine, lastExec>>
    /\ UNCHANGED mainVars
    /\ UNCHANGED vhVars
    /\ UNCHANGED ubVars
    /\ UNCHANGED qVars

\* CheckHeaders without its return: a failed validation falls through.
CheckHeadersFallThrough ==
    /\ loading /\ pc = "validate"
    /\ pc' = "begin"
    /\ UNCHANGED <<err, retVal, header, txState, txRows, table, values,
                   insertStmt, validRowCount, totalMovies, rowNumber, ret,
                   hist, printed, lastDiag, lastLine, lastExec>>
    /\ UNCHANGED mainVars
    /\ UNCHANGED vhVars
    /\ UNCHANGED ubVars
    /\ UNCHANGED qVars

\* if !validateHeaders("movies", moviesHeader) { ...; return err }
CheckHeaders ==
    /\ loading /\ pc = "validate"
    /\ IF ~validateHeaders(cur, header[cur])
       THEN retVal' = err /\ pc' = "return"
       ELSE pc' = "begin" /\ UNCHANGED retVal
    /\ UNCHANGED <<err, header, txState, txRows, table, values, insertStmt,
                   validRowCount, totalMovies, rowNumber, ret, hist, printed,
                   lastDiag, lastLine, lastExec>>
    /\ UNCHANGED mainVars
    /\ UNCHANGED vhVars
    /\ UNCHANGED ubVars
    /\ UNCHANGED qVars

\* The lines of a CSV file: well formed; with an unescaped quote but the
\* header's number of fields; or not decodable (e.g. another number of
\* fields).
LineKinds == {"clean", "quoted", "malformed"}

\* The reader's default, as in the unbatched populateMovies (line 85).
LazyQuotesOff(t) == FALSE

\* moviesReader.LazyQuotes = true (lines 238 and 340)
LazyQuotes(t) == TRUE

\* Whether Read returns a record for a line: encoding/csv rejects an
\* unescaped quote (ErrBareQuote, ErrQuote) unless LazyQuotes is set.
Decodes(kind, lazy) ==
    \/ kind = "clean"
    \/ kind = "quoted" /\ lazy

\* AppendRecord with the first two fields exchanged.
AppendRecordSwapped(vals, rec, t) ==
    vals \o [c \in 1..ColumnCount(t) |->
                IF c = 1 THEN rec[2] ELSE IF c = 2 THEN rec[1] ELSE rec[c]]

\* values = append(values, moviesRecord[0], ..., moviesRecord[3])
AppendRecord(vals, rec, t) == vals \o [c \in 1..ColumnCount(t) |-> rec[c]]

\* Truncate that keeps the buffer.
TruncateNothing(vals) == vals

\* values = values[:0]
Truncate(vals) == SubSeq(vals, 1, 0)

\* BatchFull true at every row: one insert per record, as in the unbatched
\* populateMovies (line 113).
BatchFullEachRow(n) == n >= 1

\* BatchFull with ">" for "==".
BatchFullLate(n) == n > batchSize

\* if validRowCount == batchSize
BatchFull(n) == n = batchSize

\* totalMovies += 100
FullBatchTotal(total) == total + 100

\* RemainderTotal with the divisor of populateMovies in both loaders.
RemainderTotalBy4(total, vals, t) == total + (Len(vals) \div 4)

\* totalMovies += len(values) / 4   (/ 2 in populateMoviesGenres)
RemainderTotal(total, vals, t) == total + (Len(vals) \div ColumnCount(t))

\* HasRemainder with ">=" for ">".
HasRemainderAlways(vals) == Len(vals) >= 0

\* if len(values) > 0
HasRemainder(vals) == Len(vals) > 0

\* The entry of hist.batches one tx.Exec call leaves.
ExecEntry(stmt, vals, ok) ==
    [groups |-> Groups(stmt, cur), params |-> Len(vals), ok |-> ok,
     txState |-> txState[cur], eof |-> hist[cur].eof]

\* The tx.Exec call itself: statement, parameter list, the rows of the
\* batch (validRowCount) and the number of the last record decoded.
ExecCall(stmt, vals, rows, last) ==
    [stmt |-> stmt, params |-> vals, rows |-> rows, last |-> last]

\* ReadEOF with io.EOF handled as any other error: the loop continues,
\* and Read returns io.EOF again.
ReadEOFAsError ==
    /\ loading /\ pc = "loop"
    /\ lastDiag' = rowNumber
    /\ lastLine' = "eof"
    /\ UNCHANGED <<pc, retVal, txRows, values, insertStmt, validRowCount,
                   totalMovies, rowNumber, hist, lastExec>>
    /\ UNCHANGED <<err, header, txState, table, ret, printed>>
    /\ UNCHANGED mainVars
    /\ UNCHANGED vhVars
    /\ UNCHANGED ubVars
    /\ UNCHANGED qVars

\* Read returns io.EOF: break (lines 273-277).
ReadEOF ==
    /\ loading /\ pc = "loop"
    /\ hist' = Hist2("reads", hist[cur].reads + 1, "eof", TRUE)
    /\ pc' = "remainder"
    /\ lastDiag' = 0
    /\ lastLine' = "eof"
    /\ UNCHANGED <<retVal, txRows, values, insertStmt, validRowCount,
                   totalMovies, rowNumber, lastExec>>
    /\ UNCHANGED <<err, header, txState, table, ret, printed>>
    /\ UNCHANGED mainVars
    /\ UNCHANGED vhVars
    /\ UNCHANGED ubVars
    /\ UNCHANGED qVars

\* Read returns any other error: print the row number, count the row,
\* continue (lines 273-281).
ReadSkip ==
    /\ loading /\ pc = "loop"
    /\ Consumed(cur) < Limit(cur)
    /\ hist[cur].skipped < MaxSkips
    /\ \E kind \in LineKinds :
        /\ ~Decodes(kind, LazyQuotes(cur))
        /\ lastLine' = kind
    /\ hist' = Hist2("reads", hist[cur].reads + 1,
                     "skipped", hist[cur].skipped + 1)
    /\ lastDiag' = rowNumber
    /\ rowNumber' = rowNumber + 1
    /\ UNCHANGED <<pc, retVal, txRows, values, insertStmt, validRowCount,
                   totalMovies, lastExec>>
    /\ UNCHANGED <<err, header, txState, table, ret, printed>>
    /\ UNCHANGED mainVars
    /\ UNCHANGED vhVars
    /\ UNCHANGED ubVars
    /\ UNCHANGED qVars

\* Read returns a record: append it and, at batchSize rows, tx.Exec
\* (lines 273, 283-302).  Every err of the loop body is a new variable of
\* an inner scope.
ReadDecoded ==
    /\ loading /\ pc = "loop"
    /\ Consumed(cur) < Limit(cur)
    /\ \E kind \in LineKinds :
        /\ Decodes(kind, LazyQuotes(cur))
        /\ lastLine' = kind
    /\ lastDiag' = 0
    /\ LET moviesRecord == Record(hist[cur].decoded + 1, Len(header[cur]))
           cc == ColumnCount(cur)
           h1 == Hist2("reads", hist[cur].reads + 1,
                       "decoded", hist[cur].decoded + 1)
       IN
       IF Len(moviesRecord) < cc
       THEN \* moviesRecord[i]: index out of range, the goroutine panics
            /\ hist' = h1
            /\ retVal' = "panic"
            /\ pc' = "return"
            /\ UNCHANGED <<txRows, values, insertStmt, validRowCount,
                           totalMovies, rowNumber, lastExec>>
       ELSE
       LET newValues == AppendRecord(values, moviesRecord, cur)
           newStmt == AppendGroup(insertStmt, cur)
       IN
       IF BatchFull(validRowCount + 1)
       THEN \E accepted \in BOOLEAN :
              LET stmt == DropLastChar(newStmt)
                  ok == accepted /\ Bindable(stmt, newValues, cur)
                  h2 == [h1 EXCEPT
                           ![cur].execs = @ + 1,
                           ![cur].execFails = IF ok THEN @ ELSE @ + 1,
                           ![cur].batches =
                               Append(@, ExecEntry(stmt, newValues, ok))]
              IN
              /\ hist' = h2
              /\ lastExec' = ExecCall(stmt, newValues, validRowCount + 1,
                                      hist[cur].decoded + 1)
              /\ IF ok
                 THEN /\ txRows' = [txRows EXCEPT
                             ![cur] = @ \o RowsOf(newValues, cur)]
                      /\ totalMovies' = FullBatchTotal(totalMovies)
                      /\ values' = Truncate(newValues)
                      /\ insertStmt' = <<InsertPrefix(cur)>>
                      /\ validRowCount' = 0
                      /\ rowNumber' = rowNumber + 1
                      /\ UNCHANGED <<pc, retVal>>
                 ELSE /\ values' = newValues
                      /\ insertStmt' = newStmt
                      /\ validRowCount' = validRowCount + 1
                      /\ retVal' = "error"
                      /\ pc' = "return"
                      /\ UNCHANGED <<txRows, totalMovies, rowNumber>>
       ELSE /\ hist' = h1
            /\ values' = newValues
            /\ insertStmt' = newStmt
            /\ validRowCount' = validRowCount + 1
            /\ rowNumber' = rowNumber + 1
            /\ UNCHANGED <<pc, retVal, txRows, totalMovies, lastExec>>
    /\ UNCHANGED <<err, header, txState, table, ret, printed>>
    /\ UNCHANGED mainVars
    /\ UNCHANGED vhVars
    /\ UNCHANGED ubVars
    /\ UNCHANGED qVars

\* One iteration of the read loop (lines 272-303).
ReadRecord == ReadEOF \/ ReadSkip \/ ReadDecoded

\* FlushRemainder without the return of its error path: a rejected
\* remainder insert is followed by the commit.
FlushRemainderIgnoringError ==
    /\ loading /\ pc = "remainder"
    /\ IF HasRemainder(values)
       THEN \E accepted \in BOOLEAN :
              LET stmt == DropLastChar(insertStmt)
                  ok == accepted /\ Bindable(stmt, values, cur)
              IN
              /\ hist' = [hist EXCEPT
                            ![cur].execs = @ + 1,
                            ![cur].execFails = IF ok THEN @ ELSE @ + 1,
                            ![cur].batches =
                                Append(@, ExecEntry(stmt, values, ok))]
              /\ lastExec' = ExecCall(stmt, values, validRowCount,
                                      hist[cur].decoded)
              /\ IF ok
                 THEN /\ txRows' = [txRows EXCEPT
                             ![cur] = @ \o RowsOf(values, cur)]
                      /\ totalMovies' = RemainderTotal(totalMovies, values, cur)
                 ELSE UNCHANGED <<txRows, totalMovies>>
              /\ pc' = "commit"
              /\ UNCHANGED retVal
       ELSE /\ pc' = "commit"
            /\ UNCHANGED <<hist, txRows, totalMovies, retVal, lastExec>>
    /\ UNCHANGED <<err, header, txState, table, values, insertStmt,
                   validRowCount, rowNumber, ret, printed, lastDiag, lastLine>>
    /\ UNCHANGED mainVars
    /\ UNCHANGED vhVars
    /\ UNCHANGED ubVars
    /\ UNCHANGED qVars

\* FlushRemainder with the test "len(values) > batchSize": the remainder
\* is never inserted.
FlushRemainderDropped ==
    /\ loading /\ pc = "remainder"
    /\ pc' = "commit"
    /\ UNCHANGED <<err, retVal, header, txState, txRows, table, values,
                   insertStmt, validRowCount, totalMovies, rowNumber, ret,
                   hist, printed, lastDiag, lastLine, lastExec>>
    /\ UNCHANGED mainVars
    /\ UNCHANGED vhVars
    /\ UNCHANGED ubVars
    /\ UNCHANGED qVars

\* if len(values) > 0 { tx.Exec(...); totalMovies += len(values) / 4 }
FlushRemainder ==
    /\ loading /\ pc = "remainder"
    /\ IF HasRemainder(values)
       THEN \E accepted \in BOOLEAN :
              LET stmt == DropLastChar(insertStmt)
                  ok == accepted /\ Bindable(stmt, values, cur)
              IN
              /\ hist' = [hist EXCEPT
                            ![cur].execs = @ + 1,
                            ![cur].execFails = IF ok THEN @ ELSE @ + 1,
                            ![cur].batches =
                                Append(@, ExecEntry(stmt, values, ok))]
              /\ lastExec' = ExecCall(stmt, values, validRowCount,
                                      hist[cur].decoded)
              /\ IF ok
                 THEN /\ txRows' = [txRows EXCEPT
                             ![cur] = @ \o RowsOf(values, cur)]
                      /\ totalMovies' = RemainderTotal(totalMovies, values, cur)
                      /\ pc' = "commit"
                      /\ UNCHANGED retVal
                 ELSE /\ retVal' = "error"
                      /\ pc' = "return"
                      /\ UNCHANGED <<txRows, totalMovies>>
       ELSE /\ pc' = "commit"
            /\ UNCHANGED <<hist, txRows, totalMovies, retVal, lastExec>>
    /\ UNCHANGED <<err, header, txState, table, values, insertStmt,
                   validRowCount, rowNumber, ret, printed, lastDiag, lastLine>>
    /\ UNCHANGED mainVars
    /\ UNCHANGED vhVars
    /\ UNCHANGED ubVars
    /\ UNCHANGED qVars

\* BeginTx without a transaction: the inserts go to the handle, as in the
\* unbatched populateMovies (line 113: m.db.Exec).
BeginTxNoTransaction ==
    /\ loading /\ pc = "begin"
    /\ values' = <<>>
    /\ insertStmt' = <<InsertPrefix(cur)>>
    /\ validRowCount' = 0
    /\ totalMovies' = 0
    /\ rowNumber' = 1
    /\ pc' = "loop"
    /\ UNCHANGED <<err, retVal, txState, hist>>
    /\ UNCHANGED <<header, txRows, table, ret, printed, lastDiag, lastLine,
                   lastExec>>
    /\ UNCHANGED mainVars
    /\ UNCHANGED vhVars
    /\ UNCHANGED ubVars
    /\ UNCHANGED qVars

\* tx, err := m.db.Begin(); the deferred rollback closure is registered
\* only after a successful Begin; then the locals are initialised.
BeginTx ==
    /\ loading /\ pc = "begin"
    /\ \E ok \in BOOLEAN :
        IF ok
        THEN /\ err' = "nil"
             /\ txState' = [txState EXCEPT ![cur] = "InProgress"]
             /\ hist' = H("begins", hist[cur].begins + 1)
             /\ values' = <<>>
             /\ insertStmt' = <<InsertPrefix(cur)>>
             /\ validRowCount' = 0
             /\ totalMovies' = 0
             /\ rowNumber' = 1
             /\ pc' = "loop"
             /\ UNCHANGED retVal
        ELSE /\ err' = "error"
             /\ retVal' = "error"
             /\ pc' = "return"
             /\ UNCHANGED <<txState, hist, values, insertStmt, validRowCount,
                            totalMovies, rowNumber>>
    /\ UNCHANGED <<header, txRows, table, ret, printed, lastDiag, lastLine, lastExec>>
    /\ UNCHANGED mainVars
    /\ UNCHANGED vhVars
    /\ UNCHANGED ubVars
    /\ UNCHANGED qVars

\* if err := tx.Commit(); err != nil { return err }; print the total;
\* return nil.  A rejected Commit leaves the rows uncommitted.
CommitTx ==
    /\ loading /\ pc = "commit"
    /\ \E ok \in BOOLEAN :
        IF ok
        THEN /\ txState' = [txState EXCEPT ![cur] = "Committed"]
             /\ table' = [table EXCEPT ![cur] = @ \o txRows[cur]]
             /\ txRows' = [txRows EXCEPT ![cur] = <<>>]
             /\ printed' = [printed EXCEPT ![cur] = totalMovies]
             /\ hist' = H("commits", hist[cur].commits + 1)
             /\ retVal' = "nil"
        ELSE /\ hist' = Hist2("commits", hist[cur].commits + 1,
                              "commitFails", hist[cur].commitFails + 1)
             /\ retVal' = "error"
             /\ UNCHANGED <<txState, table, txRows, printed>>
    /\ pc' = "return"
    /\ UNCHANGED <<err, header, values, insertStmt, validRowCount,
                   totalMovies, rowNumber, ret, lastDiag, lastLine, lastExec>>
    /\ UNCHANGED mainVars
    /\ UNCHANGED vhVars
    /\ UNCHANGED ubVars
    /\ UNCHANGED qVars

\* The function ends (return or panic): the deferred closure
\* "if err != nil { tx.Rollback() }" runs if it was registered, reading the
\* function-scope err; the file is closed; the locals are gone.
Return ==
    /\ loading /\ pc = "return"
    /\ IF txState[cur] # "NotStarted" /\ err # "nil"
       THEN /\ txState' = [txState EXCEPT
                   ![cur] = IF @ = "InProgress" THEN "RolledBack" ELSE @]
            /\ txRows' = [txRows EXCEPT
                   ![cur] = IF txState[cur] = "InProgress" THEN <<>> ELSE @]
            /\ hist' = H("rollbacks", hist[cur].rollbacks + 1)
       ELSE UNCHANGED <<txState, txRows, hist>>
    /\ ret' = [ret EXCEPT ![cur] = retVal]
    /\ pc' = "idle"
    /\ err' = "nil"
    /\ retVal' = "nil"
    /\ values' = <<>>
    /\ insertStmt' = <<>>
    /\ validRowCount' = 0
    /\ totalMovies' = 0
    /\ rowNumber' = 0
    /\ lastLine' = "none"
    /\ lastExec' = NoExec
    /\ UNCHANGED <<header, table, printed, lastDiag>>
    /\ UNCHANGED mainVars
    /\ UNCHANGED vhVars
    /\ UNCHANGED ubVars
    /\ UNCHANGED qVars

Next ==
    \/ MkdirTemp
    \/ newSchema
    \/ OpenCSV
    \/ ReadHeader
    \/ CheckHeaders
    \/ BeginTx
    \/ ReadRecord
    \/ FlushRemainder
    \/ CommitTx
    \/ Return
    \/ CheckMovies
    \/ CheckGenres
    \/ queryDbHighestRatedGenres
    \/ queryDbMovieCountPerGenre
    \/ CloseDb
    \/ RemoveDir

Spec == Init /\ [][Next]_vars

\* ------------------------------------- the main that ignores the loads
\* main at lines 872-901 calls the same two populate functions (lines
\* 667-870 are lines 225-426 with one more Printf each) and ignores what
\* they return; it runs no query.  A panic of populateMovies unwinds main.

\* err = movies.populateMovies()
CheckMoviesUnchecked ==
    /\ mainPc = "movies" /\ pc = "idle" /\ ret["movies"] # "notcalled"
    /\ mainPc' = IF ret["movies"] = "panic" THEN "closeDb"
                 ELSE "movies_genres"
    /\ UNCHANGED <<dirExists, dbOpen, queries>>
    /\ UNCHANGED loadVars
    /\ UNCHANGED vhVars
    /\ UNCHANGED ubVars
    /\ UNCHANGED qVars

\* err = genres.populateMoviesGenres(); main returns.
CheckGenresUnchecked ==
    /\ mainPc = "movies_genres" /\ pc = "idle"
    /\ ret["movies_genres"] # "notcalled"
    /\ mainPc' = "closeDb"
    /\ UNCHANGED <<dirExists, dbOpen, queries>>
    /\ UNCHANGED loadVars
    /\ UNCHANGED vhVars
    /\ UNCHANGED ubVars
    /\ UNCHANGED qVars

NextUnchecked ==
    \/ MkdirTemp
    \/ newSchema
    \/ OpenCSV
    \/ ReadHeader
    \/ CheckHeaders
    \/ BeginTx
    \/ ReadRecord
    \/ FlushRemainder
    \/ CommitTx
    \/ Return
    \/ CheckMoviesUnchecked
    \/ CheckGenresUnchecked
    \/ CloseDb
    \/ RemoveDir

SpecUnchecked == Init /\ [][NextUnchecked]_vars

\* ------------------------------------------- the two loaders side by side
\* populateMovies and then populateMoviesGenres, each called once on the
\* open database whatever the other did, to compare what they do.

\* The second loader is called when the first has ended.
CallSecondLoader ==
    /\ mainPc = "movies" /\ pc = "idle" /\ ret["movies"] # "notcalled"
    /\ mainPc' = "movies_genres"
    /\ UNCHANGED <<dirExists, dbOpen, queries>>
    /\ UNCHANGED loadVars
    /\ UNCHANGED vhVars
    /\ UNCHANGED ubVars
    /\ UNCHANGED qVars

NextPair ==
    \/ MkdirTemp
    \/ newSchema
    \/ OpenCSV
    \/ ReadHeader
    \/ CheckHeaders
    \/ BeginTx
    \/ ReadRecord
    \/ FlushRemainder
    \/ CommitTx
    \/ Return
    \/ CallSecondLoader

SpecPair == Init /\ [][NextPair]_vars

\* The program is sequential and nothing it waits for is modelled as
\* absent: the statement at the program's position is executed.
SpecFair == Spec /\ WF_vars(Next)


\* ------------------------------------------- validateHeaders on its own
\* Column names a header record is made of: the six expected names and a
\* quoted field that contains a comma ("id,name").
FieldStrings ==
    { Str("id"), Str("name"), Str("year"), Str("rank"), Str("movie_id"),
      Str("genre"), Str("id") \o Comma \o Str("name") }

HeaderSpace == UNION { [1..n -> FieldStrings] : n \in 0..MaxHeaderLen }

BoolStr(b) == IF b THEN "true" ELSE "false"

InitVH ==
    /\ ProgramInit
    /\ vhTable \in TableNames \cup {"actors"}
    /\ vhHeaders \in HeaderSpace
    /\ vhResult = "none"
    /\ NoUnbatchedRun
    /\ NoQueryRun

CallValidateHeaders ==
    /\ vhResult = "none"
    /\ vhTable # "none"
    /\ vhResult' = BoolStr(validateHeaders(vhTable, vhHeaders))
    /\ UNCHANGED <<vhTable, vhHeaders>>
    /\ UNCHANGED mainVars
    /\ UNCHANGED loadVars
    /\ UNCHANGED ubVars
    /\ UNCHANGED qVars

NextVH == CallValidateHeaders

SpecVH == InitVH /\ [][NextVH]_vars


\* --------------------------------------- the unbatched populateMovies
\* populateMovies of lines 75-122: one m.db.Exec per record, no
\* transaction, no LazyQuotes; its validateHeaders (lines 25-39) is the
\* text of lines 175-188.

InitUnbatched ==
    /\ ProgramInit
    /\ NoValidateCall
    /\ NoQueryRun
    /\ ubPc = "start"
    /\ ubHeader = <<>>
    /\ ubRowNumber = 0
    /\ ubRecords = 0
    /\ ubSkipped = 0
    /\ ubDiag = 0
    /\ ubRet = "notcalled"

\* Lines 77-99: open the file, read and validate the header record,
\* rowNumber := 1.
UnbatchedEnter ==
    /\ ubPc = "start"
    /\ \/ /\ ubRet' = "error"           \* os.Open or the header Read failed
          /\ ubPc' = "returned"
          /\ UNCHANGED <<ubHeader, ubRowNumber>>
       \/ \E h \in HeaderInputs("movies") :
            /\ ubHeader' = h
            /\ IF validateHeaders("movies", h)
               THEN /\ ubRowNumber' = 1
                    /\ ubPc' = "loop"
                    /\ UNCHANGED ubRet
               ELSE /\ ubRet' = "error" \* fmt.Errorf("unexpected CSV headers")
                    /\ ubPc' = "returned"
                    /\ UNCHANGED ubRowNumber
    /\ UNCHANGED <<ubRecords, ubSkipped, ubDiag>>
    /\ UNCHANGED mainVars
    /\ UNCHANGED loadVars
    /\ UNCHANGED vhVars
    /\ UNCHANGED qVars

\* One iteration of the loop of lines 100-118: rowNumber++, Read, then
\* break, skip with the diagnostic, or insert the record.
UnbatchedIterate ==
    /\ ubPc = "loop"
    /\ ubRowNumber' = ubRowNumber + 1
    /\ \/ /\ ubPc' = "returned"         \* io.EOF
          /\ ubRet' = "nil"
          /\ ubDiag' = 0
          /\ UNCHANGED <<ubRecords, ubSkipped>>
       \/ /\ ubRecords < MaxRecords     \* any other error
          /\ ubSkipped < MaxSkips
          /\ ubDiag' = ubRowNumber'
          /\ ubRecords' = ubRecords + 1
          /\ ubSkipped' = ubSkipped + 1
          /\ UNCHANGED <<ubPc, ubRet>>
       \/ /\ ubRecords < MaxRecords     \* a record
          /\ ubRecords' = ubRecords + 1
          /\ ubDiag' = 0
          /\ UNCHANGED ubSkipped
          /\ IF Len(ubHeader) < ColumnCount("movies")
             THEN /\ ubRet' = "panic"   \* moviesRecord[3]: out of range
                  /\ ubPc' = "returned"
             ELSE \E ok \in BOOLEAN :   \* m.db.Exec
                    IF ok THEN UNCHANGED <<ubPc, ubRet>>
                    ELSE ubRet' = "error" /\ ubPc' = "returned"
    /\ UNCHANGED ubHeader
    /\ UNCHANGED mainVars
    /\ UNCHANGED loadVars
    /\ UNCHANGED vhVars
    /\ UNCHANGED qVars

NextUnbatched == UnbatchedEnter \/ UnbatchedIterate

SpecUnbatched == InitUnbatched /\ [][NextUnbatched]_vars


\* ------------------------------------------ queryDbHighestRatedGenres
\* The SELECT of lines 429-447 on its own, over table contents drawn from
\* small sets.  qRank[id] is the rank of the movies row with that id: a
\* number in 1..MaxRank, 0 for a rank that is NULL or the text 'NULL' (what
\* the loader stores for the CSV field NULL), -1 if there is no such row.
\* qLinks holds the rows <<movie_id, genre>> of movies_genres.

Genres == {"Drama", "Comedy"}

\* FROM movies_genres mg JOIN movies m ON mg.movie_id = m.id
\* WHERE m.rank IS NOT NULL AND m.rank != 'NULL'
Joined(rank, links) == {l \in links : rank[l[1]] > 0}

\* GROUP BY mg.genre, m.rank
GroupKeys(rank, links) ==
    {<<l[2], rank[l[1]]>> : l \in Joined(rank, links)}

\* SELECT mg.genre, AVG(m.rank), COUNT(m.id) of one group; the average is
\* kept as the sum and the count.
GroupRow(rank, links, k) ==
    LET n == Cardinality({l \in Joined(rank, links) :
                              l[2] = k[1] /\ rank[l[1]] = k[2]})
    IN [genre |-> k[1], sum |-> k[2] * n, count |-> n]

\* avg(a) >= avg(b)
AvgGeq(a, b) == a.sum * b.count >= b.sum * a.count

\* ORDER BY avg_rank DESC: the orders the engine may return the rows in
\* (rows of equal average in any order).
Orderings(rows) ==
    {s \in [1..Cardinality(rows) -> rows] :
        \A i, j \in 1..Cardinality(rows) :
            i < j => s[i] # s[j] /\ AvgGeq(s[i], s[j])}

\* LIMIT 20
Limited(s) ==
    SubSeq(s, 1, IF Len(s) < QueryLimit THEN Len(s) ELSE QueryLimit)

InitQuery ==
    /\ ProgramInit
    /\ NoValidateCall
    /\ NoUnbatchedRun
    /\ qRank \in [1..MaxMovies -> -1..MaxRank]
    /\ qLinks \in SUBSET ((1..MaxMovies) \X Genres)
    /\ qPc = "ready"
    /\ qResult = <<>>

\* db.Query(query) and the rows.Next loop (lines 450-473).
RunHighestRatedGenres ==
    /\ qPc = "ready"
    /\ \/ /\ qPc' = "failed"            \* db.Query returned an error
          /\ UNCHANGED qResult
       \/ /\ qPc' = "done"
          /\ \E s \in Orderings({GroupRow(qRank, qLinks, k) :
                                    k \in GroupKeys(qRank, qLinks)}) :
                qResult' = Limited(s)
    /\ UNCHANGED <<qRank, qLinks>>
    /\ UNCHANGED mainVars
    /\ UNCHANGED loadVars
    /\ UNCHANGED vhVars
    /\ UNCHANGED ubVars

NextQuery == RunHighestRatedGenres

SpecQuery == InitQuery /\ [][NextQuery]_vars


\* ================================================================ claims
\* The successfully decoded data rows of a table's source, in source order,
\* as the loader binds them (the first ColumnCount fields of each record).
MoviesRecords ==
    [k \in 1..MaxRecords |-> [c \in 1..ColumnCount("movies") |-> Field(k, c)]]
GenresRecords ==
    [k \in 1..MaxRecords |->
        [c \in 1..ColumnCount("movies_genres") |-> Field(k, c)]]
DecodedRows(t) ==
    SubSeq(IF t = "movies" THEN MoviesRecords ELSE GenresRecords,
           1, hist[t].decoded)

Called(t) == ret[t] # "notcalled"
DbClosed == mainPc \in {"removeDir", "exited"}
HeaderRejected(t) == header[t] # <<>> /\ ~validateHeaders(t, header[t])
\* The load ran to its last statement (lines 321-323).
Succeeded(t) == ret[t] = "nil" /\ printed[t] # -1

\* C1: load atomicity.  Once a populate function has finished and the
\* database has been closed, the table holds every successfully decoded
\* row of the source or no row of the load, never a strict part of them.
C1_LoadAtomicity ==
    \A t \in TableNames :
        (Called(t) /\ DbClosed) =>
            /\ table[t] = <<>> \/ table[t] = DecodedRows(t)
            /\ txRows[t] = <<>>

\* C1 witness: the database is closed, the movies table holds all of more
\* than one batch of decoded rows, and the movies_genres load, which had
\* rows inserted in its transaction, left none.
C1_Witness ==
    /\ mainPc = "exited"
    /\ hist["movies"].decoded > batchSize
    /\ table["movies"] = DecodedRows("movies")
    /\ hist["movies_genres"].execs > 0
    /\ hist["movies_genres"].decoded > 0
    /\ table["movies_genres"] = <<>>

\* C2: when a batch insert is rejected, Rollback is invoked on the load's
\* transaction before the function returns, and the function returns a
\* non-nil error.
C2_RollbackOnInsertFailure ==
    \A t \in TableNames :
        (Called(t) /\ hist[t].execFails > 0) =>
            hist[t].rollbacks > 0 /\ ret[t] = "error"

\* C3: whenever a populate function returns after having begun a
\* transaction, the transaction is Committed or RolledBack.
C3_TerminalAtReturn ==
    \A t \in TableNames :
        (Called(t) /\ hist[t].begins > 0) =>
            txState[t] \in {"Committed", "RolledBack"}

\* C4: in a successful run Commit is invoked exactly once, after the end
\* of the stream and after every batch (the remainder included) has been
\* inserted without error, and no insert is executed after the commit.
C4_CommitOnceAfterAllBatches ==
    \A t \in TableNames :
        /\ Succeeded(t) =>
            /\ hist[t].commits = 1
            /\ hist[t].commitFails = 0
            /\ txState[t] = "Committed"
        /\ hist[t].commits > 0 =>
            /\ hist[t].eof
            /\ hist[t].execFails = 0
            /\ \A i \in 1..Len(hist[t].batches) :
                   hist[t].batches[i].txState = "InProgress"
        /\ txState[t] = "Committed" => table[t] = DecodedRows(t)

\* C4 witness: a load that succeeded with two full batches and a remainder.
C4_Witness ==
    /\ Succeeded("movies")
    /\ Len(hist["movies"].batches) = 3
    /\ hist["movies"].batches[3].groups < batchSize

\* C5: when the final Commit is rejected the function returns a non-nil
\* error, the transaction ends rolled back, and none of the load's rows
\* are in the table.
C5_CommitFailureRollsBack ==
    \A t \in TableNames :
        (Called(t) /\ hist[t].commitFails > 0) =>
            /\ ret[t] = "error"
            /\ txState[t] = "RolledBack"
            /\ table[t] = <<>>

\* C6: validateHeaders returns true if and only if the table is movies or
\* movies_genres and the headers are, element by element and in order,
\* the expected list of that table.
C6_ValidateExact ==
    vhResult # "none" =>
        (vhResult = "true" <=>
            \/ vhTable = "movies" /\ vhHeaders = MoviesHeaders
            \/ vhTable = "movies_genres" /\ vhHeaders = GenresHeaders)

\* C7: if header validation fails the load stops before ingestion: no
\* data record is read, no transaction is begun, no insert is executed
\* and nothing is committed for that table.
C7_NoIngestionOnBadHeader ==
    \A t \in TableNames :
        HeaderRejected(t) =>
            /\ hist[t].reads = 0
            /\ hist[t].begins = 0
            /\ hist[t].execs = 0
            /\ hist[t].commits = 0
            /\ txState[t] = "NotStarted"
            /\ txRows[t] = <<>>
            /\ table[t] = <<>>

\* C7 witness: the movies load has returned after its header was rejected.
C7_Witness ==
    /\ Called("movies")
    /\ HeaderRejected("movies")
    /\ pc = "idle"

\* C8: whenever validateHeaders returns false the populate function
\* returns a non-nil error.
C8_BadHeaderReturnsError ==
    \A t \in TableNames :
        (Called(t) /\ HeaderRejected(t)) => ret[t] = "error"

\* C9: populateMoviesGenres is invoked only after the movies transaction
\* was committed.
C9_GenresOnlyAfterMoviesCommitted ==
    (mainPc = "movies_genres" /\ (pc # "idle" \/ Called("movies_genres")))
        => txState["movies"] = "Committed"

\* C10: a row decode failure is not fatal.  The skipped row reaches no
\* batch, a diagnostic is printed and the loop goes on; and a load that
\* skipped rows and had no insert or commit rejected commits all decoded
\* rows and returns nil.
C10_SkipNotFatal ==
    \A t \in TableNames :
        /\ (loading /\ cur = t /\ lastDiag # 0) =>
              pc = "loop" /\ lastDiag = rowNumber - 1
        /\ (Called(t) /\ hist[t].skipped > 0
              /\ hist[t].execFails = 0 /\ hist[t].commitFails = 0) =>
              /\ ret[t] = "nil"
              /\ txState[t] = "Committed"
              /\ table[t] = DecodedRows(t)

\* The load of table t is past its remainder step (line 306): end of
\* stream was seen and the test of the buffer has run.
PastRemainder(t) ==
    /\ hist[t].eof
    /\ ~(loading /\ cur = t /\ pc = "remainder")

\* The rows of the batches of table t that were executed.
BatchRows(t) ==
    LET b == hist[t].batches
        sum[i \in 0..Len(b)] == IF i = 0 THEN 0 ELSE sum[i - 1] + b[i].groups
    IN sum[Len(b)]

\* C11: after a successful load the table holds exactly the decoded data
\* records, in source order, each once (the batches add up to them); the
\* header record and the skipped records are not among them, every Read
\* call accounts for one new line, and while the loop runs the rows
\* inserted so far followed by the buffered rows are the decoded records.
C11_InsertedAreDecodedInOrder ==
    \A t \in TableNames :
        /\ Succeeded(t) =>
              /\ table[t] = DecodedRows(t)
              /\ BatchRows(t) = hist[t].decoded
              /\ hist[t].headerReads = 1
              /\ hist[t].reads = hist[t].decoded + hist[t].skipped + 1
        /\ (loading /\ cur = t /\ pc \in {"loop", "remainder"}) =>
              /\ txRows[t] \o RowsOf(values, t) = DecodedRows(t)
              /\ rowNumber = hist[t].decoded + hist[t].skipped + 1

\* C11 witness: a successful movies load of more than one batch with
\* skipped rows among the decoded ones.
C11_Witness ==
    /\ Succeeded("movies")
    /\ hist["movies"].skipped = MaxSkips
    /\ hist["movies"].decoded > batchSize
    /\ Len(table["movies"]) = hist["movies"].decoded

\* C12: for a load that succeeds, the total printed equals the number of
\* rows in the table, and both equal the data records read less the
\* records skipped.
C12_PrintedTotalIsRowCount ==
    \A t \in TableNames :
        Succeeded(t) =>
            /\ printed[t] = Len(table[t])
            /\ printed[t] = (hist[t].reads - 1) - hist[t].skipped

\* C12 witness: both loads succeeded, the movies load printing a total
\* made of full batches and a remainder, with rows skipped in both.
C12_Witness ==
    /\ Succeeded("movies") /\ Succeeded("movies_genres")
    /\ printed["movies"] > batchSize
    /\ printed["movies"] % batchSize # 0
    /\ hist["movies"].skipped > 0
    /\ printed["movies_genres"] > 0
    /\ hist["movies_genres"].skipped > 0

\* C13: every batch handed to tx.Exec has at least one and at most
\* batchSize rows, with one parameter per column of each row; no insert
\* of zero rows is executed.
C13_BatchSizeInRange ==
    \A t \in TableNames :
        /\ hist[t].execs = Len(hist[t].batches)
        /\ \A i \in 1..Len(hist[t].batches) :
              /\ hist[t].batches[i].groups \in 1..batchSize
              /\ hist[t].batches[i].params
                    = hist[t].batches[i].groups * ColumnCount(t)

\* C13 witness: a movies load of exactly two full batches and a
\* movies_genres load without data rows both succeeded, the first with
\* two inserts, the second with none.
C13_Witness ==
    /\ Succeeded("movies") /\ Succeeded("movies_genres")
    /\ hist["movies"].decoded = 2 * batchSize
    /\ Len(hist["movies"].batches) = 2
    /\ hist["movies_genres"].decoded = 0
    /\ hist["movies_genres"].skipped = 0
    /\ hist["movies_genres"].batches = <<>>

\* The parameter list that binds a sequence of rows in row-major order.
Flat(rows, t) ==
    [i \in 1..(Len(rows) * ColumnCount(t)) |->
        rows[((i - 1) \div ColumnCount(t)) + 1][((i - 1) % ColumnCount(t)) + 1]]
MoviesParams == Flat(MoviesRecords, "movies")
GenresParams == Flat(GenresRecords, "movies_genres")

\* The parameters that bind the decoded records first..last of table t.
ParamsOf(t, first, last) ==
    SubSeq(IF t = "movies" THEN MoviesParams ELSE GenresParams,
           (first - 1) * ColumnCount(t) + 1, last * ColumnCount(t))

\* C14 as stated: whenever the input has at most batchSize data rows,
\* exactly one batch is executed and it is the remainder batch, executed
\* after end of stream, holding all decoded rows.
C14_OneRemainderUpToCapacity ==
    \A t \in TableNames :
        (PastRemainder(t) /\ Consumed(t) <= batchSize) =>
            /\ Len(hist[t].batches) = 1
            /\ hist[t].batches[1].eof
            /\ hist[t].batches[1].groups = hist[t].decoded

\* C14, amended: with at least one and fewer than batchSize decoded rows
\* exactly one batch is executed, after end of stream, and its parameters
\* are all decoded rows in source order; with no decoded row no batch is
\* executed; with exactly batchSize decoded rows the one batch is a full
\* batch executed inside the read loop.
C14_OneRemainderBelowCapacity ==
    \A t \in TableNames :
        PastRemainder(t) =>
            /\ hist[t].decoded \in 1..(batchSize - 1) =>
                  /\ Len(hist[t].batches) = 1
                  /\ hist[t].batches[1].eof
                  /\ hist[t].batches[1].groups = hist[t].decoded
                  /\ (loading /\ cur = t /\ pc \in {"commit", "return"}) =>
                        lastExec.params = ParamsOf(t, 1, hist[t].decoded)
                  /\ (loading /\ cur = t /\ pc = "commit") =>
                        txRows[t] = DecodedRows(t)
            /\ hist[t].decoded = 0 => hist[t].batches = <<>>
            /\ hist[t].decoded = batchSize =>
                  /\ Len(hist[t].batches) = 1
                  /\ ~hist[t].batches[1].eof
                  /\ hist[t].batches[1].groups = batchSize

\* C14 witness: the movies load executed its only batch, of batchSize - 1
\* rows, after end of stream, one row of the file having been skipped.
C14_Witness ==
    /\ loading /\ cur = "movies" /\ pc = "commit"
    /\ hist["movies"].decoded = batchSize - 1
    /\ hist["movies"].skipped = 1
    /\ Len(hist["movies"].batches) = 1
    /\ hist["movies"].batches[1].eof
    /\ lastExec.rows = batchSize - 1

\* C15: when the number of decoded rows is an exact multiple of batchSize
\* no batch is executed after end of stream, and the number of full
\* batches executed is that number divided by batchSize.
C15_NoRemainderOnExactMultiple ==
    \A t \in TableNames :
        (PastRemainder(t) /\ hist[t].decoded % batchSize = 0) =>
            /\ Len(hist[t].batches) = hist[t].decoded \div batchSize
            /\ \A i \in 1..Len(hist[t].batches) :
                  /\ ~hist[t].batches[i].eof
                  /\ hist[t].batches[i].groups = batchSize

\* C15 witness: the movies load is at its commit after 2 * batchSize
\* decoded rows and two executed batches.
C15_Witness ==
    /\ loading /\ cur = "movies" /\ pc = "commit"
    /\ hist["movies"].decoded = 2 * batchSize
    /\ Len(hist["movies"].batches) = 2
    /\ values = <<>>

\* C16: when N rows were decoded and N is not a multiple of batchSize,
\* the floor(N / batchSize) full batches are followed by exactly one
\* remainder batch of N mod batchSize rows, executed after end of stream
\* in the still open transaction, and a commit is attempted only if it
\* was accepted, at most once.
C16_RemainderFlushedOnce ==
    \A t \in TableNames :
        (PastRemainder(t) /\ hist[t].decoded % batchSize # 0) =>
            LET b == hist[t].batches
                n == hist[t].decoded \div batchSize
            IN
            /\ Len(b) = n + 1
            /\ \A i \in 1..n :
                  b[i].groups = batchSize /\ ~b[i].eof /\ b[i].ok
            /\ b[n + 1].groups = hist[t].decoded % batchSize
            /\ b[n + 1].eof
            /\ b[n + 1].txState = "InProgress"
            /\ hist[t].commits <= 1
            /\ ~b[n + 1].ok => hist[t].commits = 0

\* C16 witness: 2 * batchSize + 1 decoded rows gave batches of batchSize,
\* batchSize and 1 rows and one commit.
C16_Witness ==
    /\ Succeeded("movies")
    /\ hist["movies"].decoded = 2 * batchSize + 1
    /\ Len(hist["movies"].batches) = 3
    /\ hist["movies"].batches[1].groups = batchSize
    /\ hist["movies"].batches[2].groups = batchSize
    /\ hist["movies"].batches[3].groups = 1
    /\ hist["movies"].commits = 1

\* C17: each tx.Exec call passes one statement with as many placeholder
\* groups as the batch has rows and a parameter list of rows times column
\* count values, the fields of the batch's records in row-major order;
\* the column count is 4 for movies and 2 for movies_genres.
C17_ParametersRowMajor ==
    /\ ColumnCount("movies") = 4
    /\ ColumnCount("movies_genres") = 2
    /\ (loading /\ lastExec # NoExec) =>
          LET e == lastExec
              cc == ColumnCount(cur)
          IN
          /\ e.rows \in 1..batchSize
          /\ Len(e.params) = e.rows * cc
          /\ e.stmt[1] = InsertPrefix(cur)
          /\ Len(e.stmt) = 2 * e.rows
          /\ Groups(e.stmt, cur) = e.rows
          /\ e.params = ParamsOf(cur, e.last - e.rows + 1, e.last)

\* C17 witness: the second full batch of a movies load with a skipped
\* row was just executed.
C17_Witness ==
    /\ loading /\ cur = "movies" /\ pc = "loop"
    /\ lastExec.rows = batchSize
    /\ lastExec.last = 2 * batchSize
    /\ Len(lastExec.params) = 4 * batchSize
    /\ hist["movies"].skipped > 0

\* C18: a call begins at most one transaction, and every batch insert of
\* the call is executed in that transaction while it is open.
C18_SingleTransaction ==
    \A t \in TableNames :
        /\ hist[t].begins <= 1
        /\ hist[t].execs > 0 => hist[t].begins = 1
        /\ \A i \in 1..Len(hist[t].batches) :
              hist[t].batches[i].txState = "InProgress"
        /\ hist[t].commits + hist[t].rollbacks <= hist[t].begins

\* C18 witness: three batches of the movies load and one batch of the
\* movies_genres load, each load with one transaction begun.
C18_Witness ==
    /\ hist["movies"].begins = 1
    /\ Len(hist["movies"].batches) = 3
    /\ txState["movies"] = "Committed"
    /\ hist["movies_genres"].begins = 1
    /\ Len(hist["movies_genres"].batches) = 1

\* C19: every load that was started ends: the function returns nil after
\* its commit, returns an error, or ends in a panic, whatever the reader
\* yields.
C19_LoadTerminates ==
    (loading /\ pc # "idle") ~> (pc = "idle" /\ ret[cur] # "notcalled")

\* C19 witness: both loads have ended, the movies load with a commit
\* after skipped rows and more than a batch of records, the
\* movies_genres load with a failure after it read records.
C19_Witness ==
    /\ ret["movies"] = "nil"
    /\ hist["movies"].skipped = MaxSkips
    /\ hist["movies"].decoded > batchSize
    /\ ret["movies_genres"] = "error"
    /\ hist["movies_genres"].decoded > 0

\* C20: with LazyQuotes set in both loaders, a data line with an unescaped
\* quote and as many fields as the table has columns is decoded, not
\* skipped: no diagnostic is printed for it and its record is the last
\* row of the buffer or, if it completed a batch that was accepted, the
\* last row inserted.
C20_UnescapedQuoteRowBatched ==
    (loading /\ lastLine = "quoted"
       /\ Len(header[cur]) = ColumnCount(cur)) =>
          LET d == hist[cur].decoded
              cc == ColumnCount(cur)
              row == [c \in 1..cc |-> Field(d, c)]
          IN
          /\ lastDiag = 0
          /\ d >= 1
          /\ \/ /\ Len(values) >= cc
                /\ SubSeq(values, Len(values) - cc + 1, Len(values)) = row
             \/ /\ values = <<>>
                /\ txRows[cur] # <<>>
                /\ txRows[cur][Len(txRows[cur])] = row

\* C20 witness: the movies_genres load, after a skipped line, has just
\* read a line with an unescaped quote, and its record is the second row
\* of the buffer.
C20_Witness ==
    /\ loading /\ cur = "movies_genres" /\ pc = "loop"
    /\ lastLine = "quoted"
    /\ hist["movies_genres"].skipped = 1
    /\ hist["movies_genres"].decoded = 2
    /\ Len(values) = 2 * ColumnCount("movies_genres")
    /\ values[3] = Field(2, 1)

\* C21: when main has exited the directory of the database file is gone,
\* on every path, and the handle was closed first: the handle is never
\* open without the directory.
C21_DirRemovedAfterClose ==
    /\ mainPc = "exited" => ~dirExists /\ ~dbOpen
    /\ dbOpen => dirExists

\* C21 witness: main exited after a failed movies load that had begun its
\* transaction; the directory had been created and is removed.
C21_Witness ==
    /\ mainPc = "exited"
    /\ ~dirExists /\ ~dbOpen
    /\ ret["movies"] = "error"
    /\ hist["movies"].begins = 1
    /\ ret["movies_genres"] = "notcalled"

\* C22: once a tx.Exec call of a load has failed, the load reads no
\* further record, executes no further insert and does not call Commit.
C22_InsertFailureIsFatal ==
    [][\A t \in TableNames :
          hist[t].execFails > 0 =>
              /\ hist'[t].reads = hist[t].reads
              /\ hist'[t].execs = hist[t].execs
              /\ hist'[t].commits = hist[t].commits
              /\ hist'[t].execFails = 1
              /\ table'[t] = table[t]]_vars

\* C22 witness: the movies load returned an error after its second full
\* batch was rejected; nothing was committed.
C22_Witness ==
    /\ ret["movies"] = "error"
    /\ hist["movies"].execFails = 1
    /\ Len(hist["movies"].batches) = 2
    /\ hist["movies"].batches[1].ok
    /\ ~hist["movies"].batches[2].ok
    /\ ~hist["movies"].batches[2].eof
    /\ hist["movies"].commits = 0

\* C23: at the start of every iteration of the read loop the statement has
\* validRowCount placeholder groups, the buffer validRowCount rows of
\* values, and 0 <= validRowCount < batchSize; right after a full batch
\* was executed the buffer is empty, the statement is its bare prefix and
\* validRowCount is 0.
C23_AccumulatorInvariant ==
    (loading /\ pc = "loop") =>
        /\ validRowCount \in 0..(batchSize - 1)
        /\ Groups(insertStmt, cur) = validRowCount
        /\ Len(insertStmt) = 1 + 2 * validRowCount
        /\ insertStmt[1] = InsertPrefix(cur)
        /\ Len(values) = validRowCount * ColumnCount(cur)
        /\ (lastExec # NoExec /\ lastExec.last = hist[cur].decoded) =>
              /\ values = <<>>
              /\ insertStmt = <<InsertPrefix(cur)>>
              /\ validRowCount = 0

\* C23 witness: the movies loop is at the start of the iteration after
\* its first full batch was executed.
C23_Witness ==
    /\ loading /\ cur = "movies" /\ pc = "loop"
    /\ lastExec.rows = batchSize
    /\ lastExec.last = batchSize
    /\ hist["movies"].decoded = batchSize
    /\ values = <<>>
    /\ validRowCount = 0

\* C26: a reporting query is executed only when both loads committed
\* their transactions and returned success.
C26_QueriesOnlyAfterBothCommitted ==
    (queries > 0 \/ mainPc \in {"query1", "query2"}) =>
        \A t \in TableNames : ret[t] = "nil" /\ txState[t] = "Committed"

\* C28: no record with fewer fields than the table has columns reaches
\* the append step: the accesses moviesRecord[0..ColumnCount-1] are in
\* range, no load ends in the index panic.
C28_IndexSafety ==
    /\ retVal # "panic"
    /\ \A t \in TableNames : ret[t] # "panic"

\* C25: at most one transaction is in flight at any time of a run of
\* main: the movies transaction is not open when the movies_genres
\* transaction is.
C25_OneTransactionInFlight ==
    \A t, u \in TableNames :
        (t # u /\ txState[t] = "InProgress") => txState[u] # "InProgress"

\* The call of the loader of table t has ended and nothing around it
\* failed: the file was opened, the header record read, the transaction
\* begun if the header was accepted, no insert and no commit rejected.
EnvOk(t) ==
    /\ Called(t)
    /\ header[t] # <<>>
    /\ validateHeaders(t, header[t]) => hist[t].begins = 1
    /\ hist[t].execFails = 0
    /\ hist[t].commitFails = 0

\* What a call of the loader of table t did: transaction events, sizes of
\* the batches in order, result and reported total.
Events(t) ==
    [begins |-> hist[t].begins,
     flushes |-> [i \in 1..Len(hist[t].batches) |-> hist[t].batches[i].groups],
     skips |-> hist[t].skipped,
     commits |-> hist[t].commits,
     rollbacks |-> hist[t].rollbacks,
     ret |-> ret[t],
     total |-> printed[t]]

\* The two sources agree on what the claim fixes: validity of the header,
\* number of records decoded and number skipped by the two calls.
SameInputs ==
    /\ validateHeaders("movies", header["movies"])
          = validateHeaders("movies_genres", header["movies_genres"])
    /\ hist["movies"].decoded = hist["movies_genres"].decoded
    /\ hist["movies"].skipped = hist["movies_genres"].skipped

\* C27: the two loaders, run on sources with the same header validity and
\* the same decode outcomes, with every insert and commit accepted,
\* perform the same events with the same batch sizes and totals.
C27_LoadersEquivalent ==
    (EnvOk("movies") /\ EnvOk("movies_genres") /\ SameInputs) =>
        Events("movies") = Events("movies_genres")

\* C24: the row number printed for a skipped row is the position of that
\* row among the data records read so far, header excluded, in the
\* batched loaders and in the unbatched populateMovies.
C24_RowNumberIsDataPosition ==
    /\ (loading /\ lastDiag # 0) =>
          lastDiag = hist[cur].decoded + hist[cur].skipped
    /\ ubDiag # 0 => ubDiag = ubRecords

\* The sum of the ranks of a set of joined rows.
RECURSIVE SumRanks(_)
SumRanks(ls) ==
    IF ls = {} THEN 0
    ELSE LET l == CHOOSE x \in ls : TRUE
         IN qRank[l[1]] + SumRanks(ls \ {l})

\* C29: the rows the highest-rated-genres query returns have pairwise
\* different genres, each row carries the average and the count of all
\* joined rows of its genre with a rank, the rows are in descending order
\* of the average and there are at most QueryLimit of them.
C29_OneRowPerGenre ==
    qPc = "done" =>
        /\ \A i, j \in 1..Len(qResult) :
              i # j => qResult[i].genre # qResult[j].genre
        /\ \A i \in 1..Len(qResult) :
              LET ofGenre == {l \in Joined(qRank, qLinks) :
                                 l[2] = qResult[i].genre}
              IN /\ qResult[i].count = Cardinality(ofGenre)
                 /\ qResult[i].sum = SumRanks(ofGenre)
        /\ \A i, j \in 1..Len(qResult) :
              i < j => AvgGeq(qResult[i], qResult[j])
        /\ Len(qResult) <= QueryLimit

====
